---------------------------- MODULE Spec2Model ----------------------------
(***************************************************************************)
(* CMICmnStreamStdinLinux (lldb-mi): the interruptible line reader over    *)
(* stdin.  One consumer thread drives Initialize, Shutdown, InputAvailable *)
(* and ReadLine; a second thread may call InterruptReadLine at any time.   *)
(* InputAvailable is a loop around select() with a one second timeout and  *)
(* is modelled step by step (loop test, select returning); the other       *)
(* operations run on the consumer thread from call to return and are one   *)
(* action each.                                                            *)
(***************************************************************************)
EXTENDS Integers, Sequences, FiniteSets, TLC

(***************************************************************************)
(* Bounds of the model.                                                    *)
(***************************************************************************)
\* m_constBufferSize is 1024 in the source (constructor); the model keeps
\* the name and scales the capacity down so that lines longer than the
\* buffer occur within the bounds.
m_constBufferSize ==
    4

\* Most bytes that wait unread in stdin while the full system runs.
MaxStdin ==
    1

\* Longest input the reading specification draws for stdin.
MaxLine ==
    5

\* Most outstanding bring-ups of one module that the registry counts.
MaxRefs ==
    2

(***************************************************************************)
(* Bytes.                                                                  *)
(***************************************************************************)
NUL ==
    0

LF ==
    10

CR ==
    13

\* The bytes stdin delivers: the terminators, NUL and one ordinary letter.
Byte ==
    {NUL, LF, CR, 97}

(***************************************************************************)
(* State.                                                                  *)
(***************************************************************************)
VARIABLES
    m_bInitialized,         \* CMICmnBase::m_bInitialized
    m_pCmdBuffer,           \* "nullptr" or "heap": the buffer pointer
    cmdText,                \* what the reader wrote into the buffer
    m_pStdin,               \* "nullptr" or "stdin"
    m_waitForInput,         \* the cancellation flag
    m_strErrorDescription,  \* CMICmnBase's last error description
    stdinBuf,               \* bytes of stdin that arrived and are unread
    stdinEof,               \* the writing end of stdin is closed
    stdinErr,               \* stdin's error indicator (ferror)
    modUp,                  \* registry: bring-ups not yet torn down
    events,                 \* what the last Initialize/Shutdown did, in order
    pc,                     \* the consumer thread: idle, check, select, crashed
    vwbAvail,               \* the caller's variable behind InputAvailable's reference
    ret,                    \* InputAvailable's local ret: <<>> or <<value>>,
                            \* kept after the return until the next call
    result,                 \* what the last completed call returned
    firstInit,              \* history: successful initializations (0, 1, 2 = more)
                            \* and the usable state the first one left
    heard                   \* history, kept by the reading specification: the
                            \* input stdin held at construction and the lines
                            \* ReadLine returned since, concatenated

vars ==
    <<m_bInitialized, m_pCmdBuffer, cmdText, m_pStdin, m_waitForInput,
      m_strErrorDescription, stdinBuf, stdinEof, stdinErr, modUp, events,
      pc, vwbAvail, ret, result, firstInit, heard>>

readerVars ==
    <<m_bInitialized, m_pCmdBuffer, cmdText, m_pStdin, m_waitForInput,
      m_strErrorDescription>>

stdinVars ==
    <<stdinBuf, stdinEof, stdinErr>>

\* An empty error description (ClrErrorDescription).
NoErrorDescription ==
    [kind |-> "", mods |-> <<>>]

\* The record of a completed call: which operation, the status it returned
\* (for ReadLine: whether a line came back), the line, the stdin contents
\* the call started from, the error text handed back, whether the call
\* passed a null buffer or stream to the C library, and (history) whether
\* the cancellation flag was already disabled while the call ran.
Returned(op, ok, line, input, errMsg, nullAccess) ==
    [op |-> op, ok |-> ok, line |-> line, input |-> input,
     errMsg |-> errMsg, nullAccess |-> nullAccess,
     cancelled |-> ~m_waitForInput]

NoResult ==
    [op |-> "none", ok |-> TRUE, line |-> <<>>, input |-> <<>>,
     errMsg |-> "", nullAccess |-> FALSE, cancelled |-> FALSE]

\* The constructor: the cancellation flag starts enabled.
CtorWaitForInput ==
    TRUE

Constructed ==
    /\ m_bInitialized = FALSE
    /\ m_pCmdBuffer = "nullptr"
    /\ cmdText = <<>>
    /\ m_pStdin = "nullptr"
    /\ m_waitForInput = CtorWaitForInput
    /\ m_strErrorDescription = NoErrorDescription
    /\ modUp = [Log |-> 0, Resources |-> 0]
    /\ events = <<>>
    /\ pc = "idle"
    /\ vwbAvail = FALSE
    /\ ret = <<>>
    /\ result = NoResult
    /\ firstInit = [n |-> 0, usable |-> <<>>]

Init ==
    /\ Constructed
    /\ heard = [recording |-> FALSE, input |-> <<>>, lines |-> <<>>]
    /\ stdinBuf = <<>>
    /\ stdinEof = FALSE
    /\ stdinErr = FALSE

(***************************************************************************)
(* The module registry (MI::ModuleInit, MI::ModuleShutdown).               *)
(***************************************************************************)
\* One step of a lifecycle call: a registry call ("up", "down") on a module
\* with its outcome, or "new", "delete", "clearerr" on the reader's own
\* resources.
Event(call, mod, ok) ==
    [call |-> call, mod |-> mod, ok |-> ok]

\* ModuleInit<T>(id, bOk, errMsg): T is brought up only while bOk still
\* holds; a failure clears bOk and sets errMsg.
ModuleInit(mod, comesUp, st) ==
    IF ~st.bOk
    THEN st
    ELSE [bOk    |-> comesUp,
          errMsg |-> IF comesUp THEN st.errMsg ELSE <<mod>>,
          up     |-> IF comesUp
                     THEN [st.up EXCEPT ![mod] = @ + 1]
                     ELSE st.up,
          ev     |-> Append(st.ev, Event("up", mod, comesUp))]

\* ModuleShutdown<T>(id, bOk, errMsg): T is always torn down; a failure
\* clears bOk and appends to errMsg.
ModuleShutdown(mod, goesDown, st) ==
    [bOk    |-> st.bOk /\ goesDown,
     errMsg |-> IF goesDown THEN st.errMsg ELSE Append(st.errMsg, mod),
     up     |-> [st.up EXCEPT ![mod] = IF @ > 0 THEN @ - 1 ELSE 0],
     ev     |-> Append(st.ev, Event("down", mod, goesDown))]

(***************************************************************************)
(* Initialize.                                                             *)
(***************************************************************************)
\* Mutant: the instance is marked initialized whatever the modules did.
InitializedAfter_Always(bOk) ==
    TRUE

\* Line 93: m_bInitialized = bOk.
InitializedAfter(bOk) ==
    bOk

\* Mutant: Initialize arms the flag again.
InitializeWaitForInput_Rearm ==
    TRUE

\* Initialize has no assignment to m_waitForInput: the flag keeps its value.
InitializeWaitForInput ==
    m_waitForInput

\* Mutant: Initialize runs again on an initialized instance.
InitializeIsNoOp_Never ==
    FALSE

\* Line 73: nothing to do when already initialized.
InitializeIsNoOp ==
    m_bInitialized

\* Lines 80-81: the modules in the order Initialize brings them up.
InitializeOrder ==
    <<"Log", "Resources">>

\* The reader's usable state: initialized, buffer, stream, cancellation flag.
Usable ==
    <<m_bInitialized, m_pCmdBuffer, m_pStdin, m_waitForInput>>

Initialize(logUp, resUp) ==
    /\ pc = "idle"
    /\ IF InitializeIsNoOp
       THEN /\ result' = Returned("Initialize", TRUE, <<>>, <<>>, "", FALSE)
            /\ events' = <<>>
            /\ UNCHANGED <<readerVars, stdinVars, modUp, firstInit>>
       ELSE LET st0 == [bOk |-> TRUE, errMsg |-> <<>>, up |-> modUp, ev |-> <<>>]
                up  == [Log |-> logUp, Resources |-> resUp]
                st1 == ModuleInit(InitializeOrder[1], up[InitializeOrder[1]], st0)
                st2 == ModuleInit(InitializeOrder[2], up[InitializeOrder[2]], st1)
                bOk == st2.bOk
            IN  /\ modUp["Log"] < MaxRefs
                /\ modUp' = st2.up
                /\ IF bOk
                   THEN /\ m_pCmdBuffer' = "heap"
                        /\ cmdText' = <<>>
                        /\ m_pStdin' = "stdin"
                   ELSE UNCHANGED <<m_pCmdBuffer, cmdText, m_pStdin>>
                /\ events' = st2.ev
                                \o (IF bOk THEN <<Event("new", "", TRUE)>> ELSE <<>>)
                                \o <<Event("clearerr", "", TRUE)>>
                /\ stdinErr' = FALSE
                /\ m_bInitialized' = InitializedAfter(bOk)
                /\ IF ~bOk
                   THEN /\ m_strErrorDescription' =
                               [kind |-> "init", mods |-> st2.errMsg]
                        /\ result' =
                               Returned("Initialize", FALSE, <<>>, <<>>, "", FALSE)
                   ELSE /\ UNCHANGED m_strErrorDescription
                        /\ result' =
                               Returned("Initialize", TRUE, <<>>, <<>>, "", FALSE)
                /\ m_waitForInput' = InitializeWaitForInput
                /\ firstInit' =
                       IF ~bOk THEN firstInit
                       ELSE IF firstInit.n = 0
                            THEN [n |-> 1, usable |-> Usable']
                            ELSE [firstInit EXCEPT !.n = 2]
                /\ UNCHANGED <<stdinBuf, stdinEof>>
    /\ ret' = <<>>
    /\ UNCHANGED <<pc, vwbAvail, heard>>

(***************************************************************************)
(* Shutdown.                                                               *)
(***************************************************************************)
\* Mutant: Shutdown tears down without looking at m_bInitialized.
ShutdownIsNoOp_Never ==
    FALSE

\* Line 116: nothing to do unless initialized.
ShutdownIsNoOp ==
    ~m_bInitialized

\* Mutant: Shutdown forgets to clear m_bInitialized.
ShutdownInitialized_Kept ==
    TRUE

\* Line 119: m_bInitialized = false.
ShutdownInitialized ==
    FALSE

\* Mutant: the modules are torn down in the order they were brought up.
ShutdownOrder_AsInitialize ==
    <<"Log", "Resources">>

\* Lines 135-136: the modules in the order Shutdown tears them down.
ShutdownOrder ==
    <<"Resources", "Log">>

\* Mutant: Shutdown returns the teardown's status.
ShutdownStatus_Teardown(bOk) ==
    bOk

\* Line 143: the status Shutdown returns once the teardown is over.
ShutdownStatus(bOk) ==
    TRUE

Shutdown(resDown, logDown) ==
    /\ pc = "idle"
    /\ IF ShutdownIsNoOp
       THEN /\ result' = Returned("Shutdown", TRUE, <<>>, <<>>, "", FALSE)
            /\ events' = <<>>
            /\ UNCHANGED <<readerVars, stdinVars, modUp>>
       ELSE LET freed == IF m_pCmdBuffer # "nullptr"
                         THEN <<Event("delete", "", TRUE)>>
                         ELSE <<>>
                st0 == [bOk |-> TRUE, errMsg |-> <<>>, up |-> modUp, ev |-> freed]
                down == [Log |-> logDown, Resources |-> resDown]
                st1 == ModuleShutdown(ShutdownOrder[1], down[ShutdownOrder[1]], st0)
                st2 == ModuleShutdown(ShutdownOrder[2], down[ShutdownOrder[2]], st1)
            IN  /\ m_bInitialized' = ShutdownInitialized
                /\ m_pCmdBuffer' = "nullptr"
                /\ cmdText' = <<>>
                /\ m_pStdin' = "nullptr"
                /\ modUp' = st2.up
                /\ events' = st2.ev
                /\ m_strErrorDescription' =
                       IF ~st2.bOk
                       THEN [kind |-> "shutdown", mods |-> st2.errMsg]
                       ELSE NoErrorDescription
                /\ result' = Returned("Shutdown", ShutdownStatus(st2.bOk),
                                      <<>>, <<>>, "", FALSE)
                /\ UNCHANGED <<m_waitForInput, stdinVars>>
    /\ ret' = <<>>
    /\ UNCHANGED <<pc, vwbAvail, firstInit, heard>>

(***************************************************************************)
(* InputAvailable.                                                         *)
(***************************************************************************)
\* The caller passes a variable of its own by reference and the loop starts.
InputAvailableCall(avail) ==
    /\ pc = "idle"
    /\ pc' = "check"
    /\ vwbAvail' = avail
    /\ ret' = <<>>
    /\ result' = NoResult
    /\ UNCHANGED <<readerVars, stdinVars, modUp, events, firstInit, heard>>

\* Mutant: the loop never looks at the flag.
LoopCondition_Ignored ==
    TRUE

\* Line 163: the loop's condition.
LoopCondition ==
    m_waitForInput

\* Line 163: while (m_waitForInput); line 184 when the loop is left.
InputAvailableLoop ==
    /\ pc = "check"
    /\ IF LoopCondition
       THEN /\ pc' = "select"
            /\ UNCHANGED result
       ELSE /\ pc' = "idle"
            /\ result' = Returned("InputAvailable", FALSE, <<>>, <<>>, "", FALSE)
    /\ UNCHANGED <<readerVars, stdinVars, modUp, events, vwbAvail, ret,
                   firstInit, heard>>

\* What select() can return: stdin readable (data, or end of file) gives 1,
\* nothing readable within the second gives 0, and -1 is an error.
SelectReturns ==
    {-1} \cup (IF stdinBuf # <<>> \/ stdinEof THEN {1} ELSE {0})

\* Mutant: a timeout is taken for an error.
SelectBranch_TimeoutFails(r) ==
    IF r = 0 \/ r = -1 THEN "error"
    ELSE "ready"

\* Mutant: the flag is looked at again once select has returned.
SelectBranch_FlagFirst(r) ==
    IF ~m_waitForInput THEN "error"
    ELSE IF r = 0 THEN "continue"
    ELSE IF r = -1 THEN "error"
    ELSE "ready"

\* Lines 170-181: what the loop does with select's return value.
SelectBranch(r) ==
    IF r = 0 THEN "continue"
    ELSE IF r = -1 THEN "error"
    ELSE "ready"

InputAvailableSelect(r) ==
    /\ pc = "select"
    /\ r \in SelectReturns
    /\ ret' = <<r>>
    /\ CASE SelectBranch(r) = "continue" ->
              /\ pc' = "check"
              /\ UNCHANGED <<vwbAvail, result>>
         [] SelectBranch(r) = "error" ->
              /\ pc' = "idle"
              /\ vwbAvail' = FALSE
              /\ result' = Returned("InputAvailable", FALSE, <<>>, <<>>, "", FALSE)
         [] OTHER ->
              /\ pc' = "idle"
              /\ vwbAvail' = TRUE
              /\ result' = Returned("InputAvailable", TRUE, <<>>, <<>>, "", FALSE)
    /\ UNCHANGED <<readerVars, stdinVars, modUp, events, firstInit, heard>>

(***************************************************************************)
(* ReadLine.                                                               *)
(***************************************************************************)
\* ::fgets(buf, n, stdin) takes bytes one at a time until n - 1 are stored,
\* a '\n' has been stored, or stdin has no more.
RECURSIVE FgetsTake(_, _)
FgetsTake(s, room) ==
    IF room = 0 \/ s = <<>> THEN <<>>
    ELSE IF Head(s) = LF THEN <<LF>>
    ELSE <<Head(s)>> \o FgetsTake(Tail(s), room - 1)

\* fgets returns once the buffer is full or a '\n' was stored; otherwise it
\* waits for more bytes unless stdin is at end of file.
FgetsReturns(s, n, eof) ==
    LET got == FgetsTake(s, n - 1)
    IN  \/ Len(got) = n - 1
        \/ (got # <<>> /\ got[Len(got)] = LF)
        \/ eof

\* Mutant: only '\n' is stripped.
RECURSIVE StripNewLine_OnlyLF(_, _)
StripNewLine_OnlyLF(buf, pI) ==
    IF buf[pI] = NUL THEN buf
    ELSE IF buf[pI] = LF THEN [buf EXCEPT ![pI] = NUL]
    ELSE StripNewLine_OnlyLF(buf, pI + 1)

\* Lines 209-216: from the start of the buffer up to the first '\0', the
\* first '\n' or '\r' is overwritten with '\0'.
RECURSIVE StripNewLine(_, _)
StripNewLine(buf, pI) ==
    IF buf[pI] = NUL THEN buf
    ELSE IF buf[pI] = LF \/ buf[pI] = CR THEN [buf EXCEPT ![pI] = NUL]
    ELSE StripNewLine(buf, pI + 1)

\* The text a const MIchar * denotes: the bytes before the first '\0'.
RECURSIVE CString(_)
CString(buf) ==
    IF buf = <<>> \/ Head(buf) = NUL THEN <<>>
    ELSE <<Head(buf)>> \o CString(Tail(buf))

\* Mutant: fgets is told the buffer is one byte larger than it is.
FgetsSize_OneMore ==
    m_constBufferSize + 1

\* Line 200: the size handed to fgets.
FgetsSize ==
    m_constBufferSize

\* Mutant: a read that returned nothing always reports an error.
ReadErrMsg_Always(ferror) ==
    "strerror"

\* Lines 203-204: the error text when fgets returned nothing.
ReadErrMsg(ferror) ==
    IF ferror THEN "strerror" ELSE ""

\* fault: the read fails (the stream's error indicator gets set).
\* ub: with a null m_pCmdBuffer the call hands a null pointer to fgets (and
\* a null m_pStdin to ferror), which is undefined: the process dies, or the
\* call comes back with no line and any error text.
ReadLine(fault, ub) ==
    /\ pc = "idle"
    /\ IF m_pCmdBuffer = "nullptr"
       THEN /\ ub \in {"crash", "return", "return with error"}
            /\ pc' = IF ub = "crash" THEN "crashed" ELSE "idle"
            /\ result' = Returned("ReadLine", FALSE, <<>>, stdinBuf,
                                  IF ub = "return with error" THEN "strerror" ELSE "",
                                  TRUE)
            /\ UNCHANGED <<cmdText, stdinVars>>
       ELSE /\ ub = "crash"
            /\ pc' = pc
            /\ IF fault
               THEN /\ stdinErr' = TRUE
                    /\ result' = Returned("ReadLine", FALSE, <<>>, stdinBuf,
                                          ReadErrMsg(stdinErr'), FALSE)
                    /\ UNCHANGED <<cmdText, stdinBuf, stdinEof>>
               ELSE LET got == FgetsTake(stdinBuf, FgetsSize - 1)
                    IN  /\ FgetsReturns(stdinBuf, FgetsSize, stdinEof)
                        /\ stdinBuf' = SubSeq(stdinBuf, Len(got) + 1, Len(stdinBuf))
                        /\ IF got = <<>>
                           THEN /\ result' =
                                      Returned("ReadLine", FALSE, <<>>, stdinBuf,
                                               ReadErrMsg(stdinErr), FALSE)
                                /\ UNCHANGED cmdText
                           ELSE /\ cmdText' = StripNewLine(Append(got, NUL), 1)
                                /\ result' =
                                      Returned("ReadLine", TRUE, CString(cmdText'),
                                               stdinBuf, "", FALSE)
                        /\ UNCHANGED <<stdinEof, stdinErr>>
    /\ heard' = IF heard.recording
                THEN [heard EXCEPT !.lines = @ \o result'.line]
                ELSE heard
    /\ ret' = <<>>
    /\ UNCHANGED <<m_bInitialized, m_pCmdBuffer, m_pStdin, m_waitForInput,
                   m_strErrorDescription, modUp, events, vwbAvail,
                   firstInit>>

(***************************************************************************)
(* InterruptReadLine, called by the second thread.                         *)
(***************************************************************************)
\* Mutant: the interrupt also takes the stream away from the reader.
InterruptReadLine_ClosesStream ==
    /\ pc # "crashed"
    /\ m_waitForInput' = FALSE
    /\ m_pStdin' = "nullptr"
    /\ UNCHANGED <<m_bInitialized, m_pCmdBuffer, cmdText,
                   m_strErrorDescription, stdinVars, modUp, events, pc,
                   vwbAvail, ret, result, firstInit, heard>>

\* Lines 228-232: m_waitForInput = false.
InterruptReadLine ==
    /\ pc # "crashed"
    /\ m_waitForInput' = FALSE
    /\ UNCHANGED <<m_bInitialized, m_pCmdBuffer, cmdText, m_pStdin,
                   m_strErrorDescription, stdinVars, modUp, events, pc,
                   vwbAvail, ret, result, firstInit, heard>>

(***************************************************************************)
(* stdin's writer.                                                         *)
(***************************************************************************)
Arrive(b) ==
    /\ pc # "crashed"
    /\ ~stdinEof
    /\ Len(stdinBuf) < MaxStdin
    /\ stdinBuf' = Append(stdinBuf, b)
    /\ UNCHANGED <<readerVars, stdinEof, stdinErr, modUp, events, pc,
                   vwbAvail, ret, result, firstInit, heard>>

CloseStdin ==
    /\ pc # "crashed"
    /\ ~stdinEof
    /\ stdinEof' = TRUE
    /\ UNCHANGED <<readerVars, stdinBuf, stdinErr, modUp, events, pc,
                   vwbAvail, ret, result, firstInit, heard>>

Next ==
    \/ \E logUp, resUp \in BOOLEAN : Initialize(logUp, resUp)
    \/ \E resDown, logDown \in BOOLEAN : Shutdown(resDown, logDown)
    \/ \E avail \in BOOLEAN : InputAvailableCall(avail)
    \/ InputAvailableLoop
    \/ \E r \in {-1, 0, 1} : InputAvailableSelect(r)
    \/ \E fault \in BOOLEAN, ub \in {"crash", "return", "return with error"} :
          ReadLine(fault, ub)
    \/ InterruptReadLine
    \/ \E b \in Byte : Arrive(b)
    \/ CloseStdin

Spec ==
    Init /\ [][Next]_vars

\* The consumer thread keeps running and select() returns within its one
\* second timeout, so a call of InputAvailable that can take a step takes it.
FairSpec ==
    /\ Spec
    /\ WF_vars(InputAvailableLoop)
    /\ WF_vars(\E r \in {-1, 0, 1} : InputAvailableSelect(r))

(***************************************************************************)
(* Reading: stdin holds an input drawn from every byte sequence of up to   *)
(* MaxLine bytes when the reader is constructed; its writer may close it.  *)
(***************************************************************************)
Inputs ==
    UNION {[1..n -> Byte] : n \in 0..MaxLine}

InitRead ==
    /\ Constructed
    /\ stdinBuf \in Inputs
    /\ heard = [recording |-> TRUE, input |-> stdinBuf, lines |-> <<>>]
    /\ stdinEof = FALSE
    /\ stdinErr = FALSE

NextRead ==
    \/ Initialize(TRUE, TRUE)
    \/ \E fault \in BOOLEAN : ReadLine(fault, "crash")
    \/ Shutdown(TRUE, TRUE)
    \/ CloseStdin

SpecRead ==
    InitRead /\ [][NextRead]_vars

(***************************************************************************)
(* Properties.                                                             *)
(***************************************************************************)
\* The modules whose registry call of the given kind failed in the last
\* lifecycle call, in call order.
Failed(call) ==
    LET F[i \in 0..Len(events)] ==
            IF i = 0 THEN <<>>
            ELSE IF events[i].call = call /\ ~events[i].ok
                 THEN Append(F[i - 1], events[i].mod)
                 ELSE F[i - 1]
    IN  F[Len(events)]

Called(call) ==
    \E i \in 1..Len(events) : events[i].call = call

InWait ==
    pc \in {"check", "select"}

\* A call of InputAvailable has returned and nothing ran on the consumer
\* thread since.
WaitReturned ==
    pc = "idle" /\ result.op = "InputAvailable"

\* C1 as stated: once the flag is cleared while InputAvailable is in its
\* loop, the call returns a failure.
C1_InterruptedWaitFails ==
    [][(InWait /\ ~m_waitForInput /\ pc' = "idle") => ~result'.ok]_vars

\* C1, amended: once the flag is cleared while InputAvailable is in its loop,
\* no further poll is started and the call returns after at most the poll in
\* progress, never hanging: with a failure when the flag is found cleared at
\* the loop test, and with that poll's own outcome (success exactly when it
\* reported data ready) when the poll in progress does not time out.
C1_ReturnsAfterPollInProgress ==
    /\ [][/\ (pc = "check" /\ ~m_waitForInput) => pc' # "select"
          /\ (pc = "check" /\ ~m_waitForInput /\ pc' = "idle") => ~result'.ok
          /\ (pc = "select" /\ ~m_waitForInput /\ pc' = "idle")
                => (result'.ok <=> ret' = <<1>>)]_vars
    /\ (InWait /\ ~m_waitForInput) ~> (pc = "idle")

\* C1's case: the last poll timed out and the call then returned a failure
\* because the flag had been cleared meanwhile.
C1_Witness ==
    /\ WaitReturned
    /\ ret = <<0>>
    /\ ~result.ok
    /\ ~m_waitForInput

\* C2 as stated: InputAvailable leaving its loop on a cleared flag reports
\* available = false and a failure, whatever the caller's variable held, and
\* takes nothing from stdin.
C2_ClearedFlagReportsUnavailable ==
    [][(pc = "check" /\ ~m_waitForInput /\ pc' = "idle")
          => (vwbAvail' = FALSE /\ ~result'.ok /\ stdinBuf' = stdinBuf)]_vars

\* C3: InputAvailable returns success exactly when its last poll reported
\* data ready, then with available = true; a poll error ends the call at once
\* with available = false and a failure; a call is still in its loop only if
\* every poll so far timed out, and after a timed-out poll it can only have
\* returned through the loop test, the flag cleared.
C3_WaitOutcomes ==
    /\ WaitReturned =>
          /\ result.ok <=> ret = <<1>>
          /\ result.ok => vwbAvail
          /\ ret = <<-1>> => (~result.ok /\ ~vwbAvail)
          /\ ret = <<0>> => (~result.ok /\ ~m_waitForInput)
    /\ (InWait /\ ret # <<>>) => ret = <<0>>

C3_Witness ==
    /\ WaitReturned
    /\ result.ok
    /\ ret = <<1>>
    /\ vwbAvail

\* C4: the cancellation flag is enabled at construction, every step that
\* changes it is InterruptReadLine disabling it, and so it is never enabled
\* again, whatever Initialize, Shutdown, InputAvailable or ReadLine run.
C4_FlagIsLatch ==
    /\ m_waitForInput = TRUE
    /\ [][m_waitForInput' # m_waitForInput
             => (InterruptReadLine /\ m_waitForInput /\ ~m_waitForInput')]_vars

\* C4's case: the flag was already disabled when the first Initialize
\* returned, and it still is after a Shutdown and a second Initialize.
C4_Witness ==
    /\ ~m_waitForInput
    /\ m_bInitialized
    /\ result.op = "Initialize"
    /\ Called("new")
    /\ firstInit.n = 2
    /\ ~firstInit.usable[4]

\* C5: Shutdown of an initialized instance returns success and leaves the
\* instance un-initialized with the buffer released, whatever the teardowns
\* report; the description names exactly the teardowns that failed and is
\* empty when none did.
C5_ShutdownAlwaysSucceeds ==
    (result.op = "Shutdown" /\ Called("down")) =>
        /\ result.ok
        /\ ~m_bInitialized
        /\ m_pCmdBuffer = "nullptr"
        /\ m_strErrorDescription =
              IF Failed("down") = <<>>
              THEN NoErrorDescription
              ELSE [kind |-> "shutdown", mods |-> Failed("down")]

C5_Witness ==
    /\ result.op = "Shutdown"
    /\ result.ok
    /\ Failed("down") = <<"Resources", "Log">>
    /\ m_strErrorDescription.kind = "shutdown"
    /\ ~m_bInitialized

\* C6 as stated: a ReadLine made after Shutdown released the buffer, with no
\* Initialize since, fails with an error result and hands no null buffer to
\* the read.
C6_ReadLineAfterShutdownFails ==
    (result.op = "ReadLine" /\ Called("delete")) =>
        /\ ~result.nullAccess
        /\ ~result.ok
        /\ result.errMsg # ""
        /\ pc # "crashed"

\* C7: when a module fails to come up, Initialize returns failure, the
\* instance stays un-initialized without a buffer, and the description
\* records the failure with the module's name.
C7_FailedInitialize ==
    (result.op = "Initialize" /\ Failed("up") # <<>>) =>
        /\ ~result.ok
        /\ ~m_bInitialized
        /\ m_pCmdBuffer = "nullptr"
        /\ m_strErrorDescription = [kind |-> "init", mods |-> Failed("up")]

C7_Witness ==
    /\ result.op = "Initialize"
    /\ Failed("up") = <<"Resources">>
    /\ ~result.ok
    /\ m_strErrorDescription.kind = "init"

\* An Initialize that was not the first successful one has just returned
\* success.
Reinitialized ==
    /\ result.op = "Initialize"
    /\ result.ok
    /\ firstInit.n = 2

\* C8 as stated: a successful Initialize that is not the first leaves the
\* reader, as it returns, in the usable state the first one left,
\* cancellation flag included, whatever ran in between.
C8_ReinitializeRestoresUsableState ==
    [][(~m_bInitialized /\ m_bInitialized' /\ firstInit.n >= 1)
          => Usable' = firstInit.usable]_vars

\* C8, amended: Initialize, after Shutdown too, succeeds whenever both
\* modules come up; every successful Initialize leaves the reader
\* initialized with buffer and stream set, as the first one left them; the
\* cancellation flag is not restored: it is as the first Initialize left it
\* unless InterruptReadLine disabled it since.
C8_ReinitializeRestoresAllButFlag ==
    /\ (result.op = "Initialize" /\ Failed("up") = <<>>) => result.ok
    /\ (result.op = "Initialize" /\ result.ok) =>
          /\ m_bInitialized
          /\ m_pCmdBuffer = "heap"
          /\ m_pStdin = "stdin"
    /\ Reinitialized =>
          /\ m_bInitialized = firstInit.usable[1]
          /\ m_pCmdBuffer = firstInit.usable[2]
          /\ m_pStdin = firstInit.usable[3]
          /\ m_waitForInput => firstInit.usable[4]

\* C8's case: a second Initialize brought the reader up again after a
\* Shutdown, and the flag, enabled when the first Initialize returned, is
\* disabled.
C8_Witness ==
    /\ Reinitialized
    /\ Called("new")
    /\ firstInit.usable[4]
    /\ ~m_waitForInput

\* A call of Shutdown on an instance that is not initialized (a call that
\* leaves everything as it was shows nothing and is not looked at).
ShutdownOfUninitialized ==
    /\ ~m_bInitialized
    /\ pc = "idle"
    /\ result'.op = "Shutdown"
    /\ <<result, events>>' # <<result, events>>

\* C9: Shutdown of an instance that is not initialized (before any
\* Initialize, or right after a Shutdown) returns success, calls no teardown
\* and changes nothing of the reader, its description included.
C9_ShutdownIdempotent ==
    [][ShutdownOfUninitialized =>
          /\ result'.ok
          /\ events' = <<>>
          /\ modUp' = modUp
          /\ readerVars' = readerVars
          /\ stdinVars' = stdinVars]_vars

\* C9's case: a second Shutdown in a row, the first one's teardown error
\* still in the description.
C9_Witness ==
    /\ result.op = "Shutdown"
    /\ events = <<>>
    /\ m_strErrorDescription.kind = "shutdown"
    /\ ~m_bInitialized

\* The bytes of an input that precede its first '\n' or '\r'.
RECURSIVE FirstLine(_)
FirstLine(s) ==
    IF s = <<>> \/ Head(s) = LF \/ Head(s) = CR THEN <<>>
    ELSE <<Head(s)>> \o FirstLine(Tail(s))

Contains(s, b) ==
    \E i \in 1..Len(s) : s[i] = b

\* A ReadLine that read into an allocated buffer has returned without
\* reporting a read error, having found stdin non-empty and its first line
\* shorter than m_constBufferSize - 1.
ReadShortLine ==
    /\ result.op = "ReadLine"
    /\ ~result.nullAccess
    /\ result.errMsg = ""
    /\ result.input # <<>>
    /\ Len(FirstLine(result.input)) < m_constBufferSize - 1

\* C10 as stated: for every input line shorter than m_constBufferSize - 1,
\* ReadLine returns exactly the bytes before the line's first '\n' or '\r'.
C10_ReturnsFirstLine ==
    ReadShortLine =>
        /\ result.ok
        /\ result.line = FirstLine(result.input)

\* C10, amended: for every input line shorter than m_constBufferSize - 1
\* that holds no NUL byte before its first '\n' or '\r', ReadLine returns
\* exactly the bytes before that terminator; with a NUL byte in the line, the
\* returned text ends before the NUL.
C10_ReturnsFirstLineUpToNul ==
    ReadShortLine =>
        /\ result.ok
        /\ result.line = CString(FirstLine(result.input))
        /\ ~Contains(result.line, LF)
        /\ ~Contains(result.line, CR)
        /\ ~Contains(FirstLine(result.input), NUL)
              => result.line = FirstLine(result.input)

\* C10's case: a line ended by "\r\n" came back without either byte.
C10_Witness ==
    /\ ReadShortLine
    /\ result.input = <<97, 97, CR, LF>>
    /\ result.line = <<97, 97>>
    /\ stdinBuf = <<LF>>

\* A ReadLine that read into an allocated buffer has returned without
\* reporting a read error, having found in stdin m_constBufferSize bytes or
\* more with no '\n' or '\r' among the first m_constBufferSize - 1.
ReadLongLine ==
    /\ result.op = "ReadLine"
    /\ ~result.nullAccess
    /\ result.errMsg = ""
    /\ Len(result.input) >= m_constBufferSize
    /\ \A i \in 1..(m_constBufferSize - 1) : result.input[i] \notin {LF, CR}

\* C11 as stated: the buffer never holds more than m_constBufferSize - 1
\* input bytes, and from a line of m_constBufferSize bytes or more with no
\* terminator among its first m_constBufferSize - 1 bytes ReadLine returns
\* exactly those first m_constBufferSize - 1 bytes.
C11_ReturnsFullBuffer ==
    /\ Len(cmdText) <= m_constBufferSize
    /\ ReadLongLine =>
          /\ result.ok
          /\ result.line = SubSeq(result.input, 1, m_constBufferSize - 1)

\* C11, amended: the buffer never holds more than m_constBufferSize - 1
\* input bytes and their closing NUL; from a line of m_constBufferSize bytes
\* or more with no terminator among its first m_constBufferSize - 1 bytes
\* ReadLine takes exactly those bytes from stdin and returns them up to their
\* first NUL byte: all of them when there is no NUL among them.
C11_ReturnsFullBufferUpToNul ==
    /\ Len(cmdText) <= m_constBufferSize
    /\ ReadLongLine =>
          LET first == SubSeq(result.input, 1, m_constBufferSize - 1)
          IN  /\ result.ok
              /\ result.line = CString(first)
              /\ stdinBuf = SubSeq(result.input, m_constBufferSize,
                                   Len(result.input))
              /\ ~Contains(first, NUL) => result.line = first

\* C11's case: of a line of m_constBufferSize letters the first
\* m_constBufferSize - 1 came back and the last one is still in stdin.
C11_Witness ==
    /\ ReadLongLine
    /\ result.input = [i \in 1..m_constBufferSize |-> 97]
    /\ result.line = [i \in 1..(m_constBufferSize - 1) |-> 97]
    /\ stdinBuf = <<97>>

\* A ReadLine that read into an allocated buffer has returned no line: the
\* underlying read returned nothing.
ReadNothing ==
    /\ result.op = "ReadLine"
    /\ ~result.nullAccess
    /\ ~result.ok

\* C12: a ReadLine whose read returned nothing returns no line, with the
\* platform's error text exactly when stdin's error indicator is set and with
\* an empty error message otherwise; a ReadLine that returns a line hands
\* back an empty error message, whatever an earlier call reported.
C12_ErrorTextIffStreamError ==
    /\ ReadNothing =>
          /\ result.line = <<>>
          /\ result.errMsg = "strerror" <=> stdinErr
          /\ ~stdinErr => result.errMsg = ""
    /\ (result.op = "ReadLine" /\ ~result.nullAccess /\ result.ok)
          => result.errMsg = ""

\* C12's case: ReadLine met the end of a drained stdin whose error indicator
\* is clear, and returned no line and no error text.
C12_Witness ==
    /\ ReadNothing
    /\ result.input = <<>>
    /\ stdinEof
    /\ ~stdinErr
    /\ result.errMsg = ""

\* C13: the last Initialize that did any work called the registry for Log
\* first and for Resources only after it; the last Shutdown that did any
\* work released the buffer first, then tore down Resources, then Log.
C13_BringUpAndTeardownOrder ==
    /\ Called("up") =>
          /\ events[1].call = "up" /\ events[1].mod = "Log"
          /\ \A j \in 1..Len(events) :
                (events[j].call = "up" /\ events[j].mod = "Resources")
                   => (j = 2 /\ events[1].ok)
    /\ Called("down") =>
          /\ Len(events) = 3
          /\ events[1].call = "delete"
          /\ events[2].call = "down" /\ events[2].mod = "Resources"
          /\ events[3].call = "down" /\ events[3].mod = "Log"

\* C13's case: a Shutdown of an initialized reader has run both teardowns,
\* the one of Resources failing, after deleting the buffer.
C13_Witness ==
    /\ result.op = "Shutdown"
    /\ Len(events) = 3
    /\ events[1].call = "delete"
    /\ events[2] = Event("down", "Resources", FALSE)
    /\ events[3] = Event("down", "Log", TRUE)

TookFailurePath ==
    \/ result.op \in {"Initialize", "InputAvailable", "ReadLine"} /\ ~result.ok
    \/ result.op = "Shutdown" /\ Failed("down") # <<>>

\* C15: after any operation the error description is non-empty only if
\* that operation took a failure path.
C15_DescriptionOnlyFromLastOperation ==
    (pc = "idle" /\ result.op # "none"
        /\ m_strErrorDescription # NoErrorDescription)
       => TookFailurePath

InitializeOfInitialized ==
    /\ m_bInitialized
    /\ pc = "idle"
    /\ result'.op = "Initialize"
    /\ <<result, events>>' # <<result, events>>

\* C16: Initialize of an initialized instance returns success, calls no
\* bring-up, allocates nothing and changes nothing of the reader (flags,
\* buffer, stream, error description) nor of stdin.
C16_InitializeIdempotent ==
    [][InitializeOfInitialized =>
          /\ result'.ok
          /\ events' = <<>>
          /\ modUp' = modUp
          /\ readerVars' = readerVars
          /\ stdinVars' = stdinVars]_vars

\* C16's case: a second Initialize in a row, after an interrupt, that left
\* in place the description an earlier Shutdown recorded.
C16_Witness ==
    /\ result.op = "Initialize"
    /\ result.ok
    /\ events = <<>>
    /\ result.cancelled
    /\ m_bInitialized
    /\ m_pCmdBuffer = "heap"
    /\ m_strErrorDescription.kind = "shutdown"

\* C17: the buffer is allocated exactly when the instance is initialized,
\* and the instance is initialized only if some Initialize succeeded and the
\* last lifecycle call that did any work was not a Shutdown.
C17_BufferIffInitialized ==
    /\ (m_pCmdBuffer = "heap") <=> m_bInitialized
    /\ m_bInitialized =>
          /\ firstInit.n >= 1
          /\ ~Called("down")
          /\ ~Called("delete")
          /\ result.op # "Shutdown"

\* C17's case: initialized again, with a buffer, after a Shutdown.
C17_Witness ==
    /\ m_bInitialized
    /\ m_pCmdBuffer = "heap"
    /\ firstInit.n = 2
    /\ Called("new")

\* C18: a select that reports stdin ready ends the call with success and
\* available = true even though the flag was disabled meanwhile; the loop
\* test is where a disabled flag is seen: the call then fails without
\* another select, so a call returns without any select only as a failure
\* with the flag disabled.
C18_CancellationSeenByNextCall ==
    /\ [][(pc = "select" /\ ~m_waitForInput /\ ret' = <<1>> /\ pc' # pc)
             => (pc' = "idle" /\ result'.ok /\ vwbAvail')]_vars
    /\ [][(pc = "check" /\ ~m_waitForInput /\ pc' # pc)
             => /\ pc' = "idle"
                /\ ~result'.ok
                /\ ret' = ret
                /\ stdinVars' = stdinVars]_vars
    /\ []((WaitReturned /\ ret = <<>>) => (~result.ok /\ result.cancelled))

\* C18's case: InputAvailable returned success and available = true with
\* the flag already disabled when select came back.
C18_Witness ==
    /\ WaitReturned
    /\ result.ok
    /\ result.cancelled
    /\ ret = <<1>>
    /\ vwbAvail

\* An input without its '\n' and '\r' bytes.
RECURSIVE RemoveTerminators(_)
RemoveTerminators(s) ==
    IF s = <<>> THEN <<>>
    ELSE IF Head(s) \in {LF, CR} THEN RemoveTerminators(Tail(s))
    ELSE <<Head(s)>> \o RemoveTerminators(Tail(s))

\* '\r' occurs only immediately before '\n'.
CROnlyBeforeLF(s) ==
    \A i \in 1..Len(s) : s[i] = CR => (i < Len(s) /\ s[i + 1] = LF)

\* C19 as stated: for an input in which '\r' occurs only immediately before
\* '\n', once stdin is drained the lines ReadLine returned, concatenated,
\* are the input without its '\n' and '\r' bytes.
C19_LinesAreInputWithoutTerminators ==
    (heard.recording /\ CROnlyBeforeLF(heard.input) /\ stdinBuf = <<>>)
       => heard.lines = RemoveTerminators(heard.input)

\* C19, amended: for an input without NUL bytes in which '\r' occurs only
\* immediately before '\n', the lines returned so far, concatenated, followed
\* by what is still in stdin without its terminators, are the input without
\* its terminators; so they are the whole input without its terminators once
\* stdin is drained.
C19_LinesAreNulFreeInputWithoutTerminators ==
    (heard.recording /\ CROnlyBeforeLF(heard.input)
        /\ ~Contains(heard.input, NUL))
       => heard.lines \o RemoveTerminators(stdinBuf)
             = RemoveTerminators(heard.input)

\* C19's case: a line longer than the buffer came back in two pieces and
\* stdin is drained.
C19_Witness ==
    /\ heard.recording
    /\ heard.input = <<97, 97, 97, 97, LF>>
    /\ heard.lines = <<97, 97, 97, 97>>
    /\ stdinBuf = <<>>
    /\ result.op = "ReadLine"
    /\ result.line = <<97>>

\* C20: once a Shutdown has returned, no module this reader brought up is
\* still up.
C20_TeardownBalanced ==
    (pc = "idle" /\ result.op = "Shutdown")
       => modUp = [Log |-> 0, Resources |-> 0]

=============================================================================
